---- MODULE Spec2Model ----
(***************************************************************************)
(* Signaling and credential lifecycle of xirsysapp/cli_with_video.py:      *)
(* PeerConnection.run, doIce, get_wsurl, start_signaling, receive_message, *)
(* make_answer, execute_and_send, the engine callbacks and cleanup.        *)
(*                                                                         *)
(* One asyncio task runs run().  Every value of pc is a point of that      *)
(* task; the points listed in Suspended are awaits at which the event loop *)
(* may run other work: the engine's callbacks, the remote end closing the  *)
(* channel, the clock.  Code between two awaits is one action.             *)
(***************************************************************************)
EXTENDS Integers, Sequences, FiniteSets, TLC

\* ---------------------------------------------------------------- bounds
MaxCycles == 2      \* iterations of the outer while loop that are explored
MaxFrames == 2      \* frames received in one cycle
KeepAlive == 2      \* keep_alive_interval, in seconds (receive timeout = 1 s)
MaxTried == 10      \* probes of get_wsurl

MaxAge == KeepAlive + 1   \* clocks saturate here; only "> KeepAlive" is read

\* ---------------------------------------------------------------- PcState
ICE_NOT_READY == "ICE_NOT_READY"
ICE_READY == "ICE_READY"
ICING == "ICING"
CONNECTING == "CONNECTING"
CONNECTED == "CONNECTED"
DISCONNECTED == "DISCONNECTED"
TERMINATED == "TERMINATED"

PcState ==
  {ICE_NOT_READY, ICE_READY, ICING, CONNECTING, CONNECTED, DISCONNECTED, TERMINATED}

\* ---------------------------------------------------------------- frames
Peers == {"alice", "bob"}
Channel == "sampleAppChannel"
User == "me"
None == "None"

Objectives == {"peers", "peer_connected", "peer_removed", "message"}
MsgTypes == {"offer", "answer", "candidate", "action"}

\* A parsed frame: o = data['m']['o'], f = data['m']['f'] split at '/',
\* type = data['p']['msg']['type'] ("absent": the payload has no 'type'),
\* ok = the payload's remaining fields are what the handler reads
\* (candidate string, action code, a command that executes),
\* halts = the process a command starts comes to an end.
\* o = "malformed" stands for a frame json.loads or the field lookups reject.
Frames ==
  [o : {"peers", "peer_connected", "peer_removed", "subscribe"},
   f : {<<Channel, "alice">>}, type : {"absent"}, ok : {TRUE}, halts : {TRUE}]
  \cup
  [o : {"message"}, f : {<<Channel, p>> : p \in Peers},
   type : {"offer"}, ok : {TRUE}, halts : {TRUE}]
  \cup
  [o : {"message"}, f : {<<Channel, "alice">>},
   type : {"answer", "ping"}, ok : {TRUE}, halts : {TRUE}]
  \cup
  [o : {"message"}, f : {<<Channel, "alice">>},
   type : {"candidate", "action"}, ok : BOOLEAN,
   halts : {TRUE}]
  \cup
  [o : {"message"}, f : {<<Channel, p>> : p \in Peers},
   type : {"absent"}, ok : BOOLEAN,
   halts : {TRUE}]
  \cup
  [o : {"malformed"}, f : {<<Channel>>}, type : {"absent"}, ok : {FALSE},
   halts : {TRUE}]
  \cup
  [o : {"message"}, f : {<<Channel, "alice">>}, type : {"absent"},
   ok : {TRUE}, halts : {FALSE}]

NoFrame ==
  [o |-> "none", f |-> <<Channel>>, type |-> "absent", ok |-> TRUE,
   halts |-> TRUE]

Last(s) == s[Len(s)]

VARIABLES
  state,        \* self._state
  pc,           \* position of the task running run()
  exc,          \* exception propagating out of the websocket context
  cycle,        \* iterations of the outer loop entered so far
  pcCycle,      \* cycle that created self._pc/_recorder; 0: attributes unset
  pcClosed,     \* self._pc has been closed
  recorderOn,   \* self._recorder is started
  iceCb,        \* on_iceconnectionstatechange is registered on self._pc
  ice,          \* self._pc.iceConnectionState
  dtls,         \* self._sender.transport.state ("none": no sender yet)
  dtlsTask,     \* a scheduled run of the coroutine on_dtlsstatechanged
  caller,       \* self._caller
  wsOpen,       \* websocket.open of the long-lived connection
  tried,        \* get_wsurl's tried
  age,          \* seconds since doIce obtained the credentials
  elapsed,      \* time.time() - signaling_started
  waited,       \* seconds the pending wait_for(recv, 1.0) has waited
  frames,       \* frames received in this cycle
  cur,          \* the frame last handed to receive_message's dispatch
  reply,        \* payload of the message about to be sent
  sent,         \* envelopes sent while handling cur
  answers,      \* answers sent in this cycle
  offers,       \* offers dispatched to make_answer in this cycle
  cleanups,     \* calls of cleanup() in this cycle
  cleanupEntry, \* the state when cleanup() was last entered
  termWritten,  \* TERMINATED has been written
  closedSeen,   \* ConnectionClosed has been caught
  expired,      \* the last receive timeout found the credentials expired
  socks,        \* websocket connections entered by "async with", not yet left
  tokenOk,      \* get_wsurl's gettoken request succeeded in this cycle
  fault,        \* the step of this cycle that raised ("none": no exception)
  discWritten   \* on_dtlsstatechanged wrote DISCONNECTED in this receive loop

vars ==
  <<state, pc, exc, cycle, pcCycle, pcClosed, recorderOn, iceCb, ice, dtls,
    dtlsTask, caller, wsOpen, tried, age, elapsed, waited, frames, cur, reply,
    sent, answers, offers, cleanups, cleanupEntry, termWritten, closedSeen,
    expired, socks, tokenOk, fault, discWritten>>

engineVars == <<pcCycle, pcClosed, recorderOn, iceCb, ice, dtls, dtlsTask>>
clockVars == <<age, elapsed, waited>>
frameVars == <<frames, cur, reply, sent, answers, offers>>
ghostVars == <<cleanups, cleanupEntry, termWritten, closedSeen, expired>>
auxVars == <<socks, tokenOk, fault, discWritten>>

Min(a, b) == IF a < b THEN a ELSE b

\* __init__
Init ==
  /\ state = ICE_NOT_READY
  /\ pc = "loop"
  /\ exc = "none"
  /\ cycle = 0
  /\ pcCycle = 0
  /\ pcClosed = FALSE
  /\ recorderOn = FALSE
  /\ iceCb = FALSE
  /\ ice = "none"
  /\ dtls = "none"
  /\ dtlsTask = FALSE
  /\ caller = None
  /\ wsOpen = FALSE
  /\ tried = 0
  /\ age = 0
  /\ elapsed = 0
  /\ waited = 0
  /\ frames = 0
  /\ cur = NoFrame
  /\ reply = "none"
  /\ sent = <<>>
  /\ answers = 0
  /\ offers = 0
  /\ cleanups = 0
  /\ cleanupEntry = ICE_NOT_READY
  /\ termWritten = FALSE
  /\ closedSeen = FALSE
  /\ expired = FALSE
  /\ socks = 0
  /\ tokenOk = FALSE
  /\ fault = "none"
  /\ discWritten = FALSE


\* ------------------------------------------------------- pure parts of code

\* run: "while not self._state == self.PcState.TERMINATED"
RunContinues(s) == s # TERMINATED

\* start_signaling: "while not self._state == TERMINATED and websocket.open"
LoopContinues(s, open) == s # TERMINATED /\ open

\* variant of TimeoutBreaks: the expiry test reads the wrong state
TimeoutBreaksWrongState(s, e) ==
  \/ s = DISCONNECTED
  \/ (e > KeepAlive /\ s = CONNECTED)

\* start_signaling, except asyncio.TimeoutError: the two break conditions
TimeoutBreaks(s, e) ==
  \/ s = DISCONNECTED
  \/ (e > KeepAlive /\ s = ICE_READY)

\* variant of ProbeAgain: one more candidate after the tenth failed probe
ProbeAgainInclusive(t) == t <= MaxTried

\* get_wsurl: "while wsurl is None and tried < 10", wsurl being None
ProbeAgain(t) == t < MaxTried

\* variant of AfterToken: a token response without 'v' is used all the same
AfterTokenIgnored(ok) == "gethost"

\* get_wsurl: token = r.json()['v'] raises unless the request succeeded
AfterToken(ok) == IF ok THEN "gethost" ELSE "raise"

\* variant of ExceptState: the handler leaves the state for cleanup to reset
ExceptStateRetry(s) == s

\* run: "except Exception: ... self.state = self.PcState.TERMINATED"
ExceptState(s) == TERMINATED

\* "async with websockets.client.connect(...)": entering opens a connection
Opened(n) == n + 1

\* variant of Closed: leaving the context does not close the connection
ClosedLeak(n) == n

\* leaving the "async with" block closes the connection
Closed(n) == n - 1

\* variant of CleanupState: cleanup closes the engine but leaves the state
CleanupStateKeep(s) == s

\* cleanup: "if not self._state == TERMINATED: self.state = ICE_NOT_READY"
CleanupState(s) == IF s = TERMINATED THEN s ELSE ICE_NOT_READY

\* on_iceconnectionstatechange
OnIceState(s, iceState) == IF iceState = "completed" THEN CONNECTING ELSE s

\* on_dtlsstatechanged
OnDtlsState(s, transportState) ==
  IF transportState = "closed" THEN DISCONNECTED ELSE s

\* variant of Route: an unknown objective or type is a fault
RouteStrict(f) ==
  IF f.o = "malformed" THEN "raise"
  ELSE IF f.o \in {"peers", "peer_connected", "peer_removed"} THEN "log"
  ELSE IF f.o = "message" THEN
    IF f.type # "absent" THEN
      IF f.type = "offer" THEN "offer"
      ELSE IF f.type = "answer" THEN "log"
      ELSE IF f.type \in {"candidate", "action"} THEN
        (IF f.ok THEN "log" ELSE "raise")
      ELSE "raise"
    ELSE "command"
  ELSE "raise"

\* receive_message: what the if/elif chain does with a parsed frame
Route(f) ==
  IF f.o = "malformed" THEN "raise"
  ELSE IF f.o = "peers" THEN "log"
  ELSE IF f.o = "peer_connected" THEN "log"
  ELSE IF f.o = "peer_removed" THEN "log"
  ELSE IF f.o = "message" THEN
    IF f.type # "absent" THEN
      IF f.type = "offer" THEN "offer"
      ELSE IF f.type = "answer" THEN "log"
      ELSE IF f.type = "candidate" THEN (IF f.ok THEN "log" ELSE "raise")
      ELSE IF f.type = "action" THEN (IF f.ok THEN "log" ELSE "raise")
      ELSE "log"
    ELSE "command"
  ELSE "log"

\* variant of PeerOf: the first path segment instead of the last
PeerOfFirst(f) == f.f[1]

\* make_answer: peer = data['m']['f'].split('/')[-1]
PeerOf(f) == Last(f.f)

\* the outbound envelope of make_answer and execute_and_send
Envelope(target, payload) ==
  [t |-> "u", f |-> <<Channel, User>>, o |-> "message", mt |-> target,
   msg |-> payload]

\* execute_and_send: the text sent back
CommandOutput(f) == IF f.ok THEN "output" ELSE "can not execute"

\* ------------------------------------------------------------ control flow

\* awaits at which the event loop runs callbacks and network events
Suspended ==
  {"probe", "probe_close", "connect", "recv", "neg_remote", "neg_rec",
   "neg_answer", "neg_send", "cmd_send", "ws_exit", "cl_closing"}

\* awaits inside "async with websockets.client.connect(...) as websocket"
InChannel == {"recv", "neg_remote", "neg_rec", "neg_answer", "neg_send", "cmd_send"}

\* run: an exception raised outside the websocket context reaches
\* "except Exception" (state = TERMINATED) and then "finally" (cleanup)
RaiseInRun ==
  /\ state' = ExceptState(state)
  /\ termWritten' = TRUE
  /\ pc' = "cl_stop"
  /\ cleanups' = cleanups + 1
  /\ cleanupEntry' = state'
  /\ UNCHANGED closedSeen

\* an exception raised inside the websocket context first leaves it
RaiseInChannel ==
  /\ exc' = "Exception"
  /\ pc' = "ws_exit"

\* the next test of the receive loop's condition
NextIteration(s, open) == IF LoopContinues(s, open) THEN "recv" ELSE "ws_exit"

\* run: the test of the outer loop
RunLoop ==
  /\ pc = "loop"
  /\ IF RunContinues(state)
     THEN /\ cycle < MaxCycles
          /\ cycle' = cycle + 1
          /\ pc' = IF state = ICE_NOT_READY THEN "doIce" ELSE "start"
          /\ cleanups' = 0
          /\ frames' = 0
          /\ answers' = 0
          /\ offers' = 0
          /\ cur' = NoFrame
          /\ sent' = <<>>
          /\ tokenOk' = FALSE
          /\ fault' = "none"
          /\ discWritten' = FALSE
     ELSE /\ pc' = "done"
          /\ UNCHANGED <<cycle, cleanups, frames, answers, offers, cur, sent,
                         tokenOk, fault, discWritten>>
  /\ UNCHANGED socks
  /\ UNCHANGED <<state, exc, engineVars, caller, wsOpen, tried, clockVars,
                 reply, cleanupEntry, termWritten, closedSeen, expired>>

\* doIce: the getice request, the peer connection, the recorder, ICE_READY
DoIce(ok) ==
  /\ pc = "doIce"
  /\ IF ok
     THEN /\ pcCycle' = cycle
          /\ pcClosed' = FALSE
          /\ recorderOn' = FALSE
          /\ iceCb' = FALSE
          /\ ice' = "new"
          /\ age' = 0
          /\ state' = ICE_READY
          /\ pc' = "start"
          /\ UNCHANGED <<cleanups, cleanupEntry, termWritten, closedSeen>>
     ELSE /\ RaiseInRun
          /\ UNCHANGED <<pcCycle, pcClosed, recorderOn, iceCb, ice, age>>
  /\ expired' = FALSE
  /\ fault' = IF ok THEN fault ELSE "getice"
  /\ UNCHANGED <<socks, tokenOk, discWritten>>
  /\ UNCHANGED <<exc, cycle, dtls, dtlsTask, caller, wsOpen, tried, elapsed,
                 waited, frameVars>>

\* start_signaling up to get_wsurl's token request
StartSignaling(ok) ==
  /\ pc = "start"
  /\ elapsed' = 0
  /\ tried' = 0
  /\ IF AfterToken(ok) = "gethost"
     THEN /\ pc' = "gethost"
          /\ fault' = fault
          /\ UNCHANGED <<state, cleanups, cleanupEntry, termWritten, closedSeen>>
     ELSE /\ RaiseInRun
          /\ fault' = "gettoken"
  /\ tokenOk' = ok
  /\ UNCHANGED <<expired, socks, discWritten>>
  /\ UNCHANGED <<exc, cycle, engineVars, caller, wsOpen, age, waited,
                 frameVars>>

\* get_wsurl: one gethost request of "while wsurl is None and tried < 10";
\* after ten failed probes, or when the request fails, get_wsurl raises
\* (tried is a local: it is gone once get_wsurl is left)
GetHost(ok) ==
  /\ pc = "gethost"
  /\ IF ProbeAgain(tried) /\ ok
     THEN /\ pc' = "probe"
          /\ UNCHANGED <<state, tried, cleanups, cleanupEntry, termWritten,
                         closedSeen>>
     ELSE /\ RaiseInRun
          /\ tried' = 0
  /\ fault' = IF ~ProbeAgain(tried) THEN "exhausted"
              ELSE IF ok THEN fault ELSE "gethost"
  /\ UNCHANGED <<expired, socks, tokenOk, discWritten>>
  /\ UNCHANGED <<exc, cycle, engineVars, caller, wsOpen, clockVars,
                 frameVars>>

\* get_wsurl: the probe connection is opened, or fails and counts as a try
Probe(ok) ==
  /\ pc = "probe"
  /\ IF ok
     THEN /\ pc' = "probe_close"
          /\ socks' = Opened(socks)
          /\ UNCHANGED tried
     ELSE /\ pc' = "gethost"
          /\ tried' = tried + 1
          /\ UNCHANGED socks
  /\ UNCHANGED <<state, exc, cycle, engineVars, caller, wsOpen, clockVars,
                 frameVars, ghostVars, tokenOk, fault, discWritten>>

\* get_wsurl: the probe's "async with" is left, the loop ends, wsurl is
\* returned
ProbeClose ==
  /\ pc = "probe_close"
  /\ socks' = Closed(socks)
  /\ tried' = 0
  /\ pc' = "connect"
  /\ UNCHANGED <<state, exc, cycle, engineVars, caller, wsOpen, clockVars,
                 frameVars, ghostVars, tokenOk, fault, discWritten>>

\* start_signaling: the long-lived connection and the first loop test
Connect(ok) ==
  /\ pc = "connect"
  /\ IF ok
     THEN /\ wsOpen' = TRUE
          /\ pc' = NextIteration(state, TRUE)
          /\ waited' = 0
          /\ UNCHANGED <<state, cleanups, cleanupEntry, termWritten, closedSeen>>
     ELSE /\ RaiseInRun
          /\ UNCHANGED <<wsOpen, waited>>
  /\ socks' = IF ok THEN Opened(socks) ELSE socks
  /\ fault' = IF ok THEN fault ELSE "connect"
  /\ UNCHANGED <<expired, tokenOk, discWritten>>
  /\ UNCHANGED <<exc, cycle, engineVars, caller, tried, age, elapsed,
                 frameVars>>


\* ------------------------------------------------------------ receive loop

\* except asyncio.TimeoutError: wait_for gave up after one second
RecvTimeout ==
  /\ pc = "recv"
  /\ wsOpen
  /\ waited = 1
  /\ pc' = IF TimeoutBreaks(state, elapsed)
           THEN "ws_exit"
           ELSE NextIteration(state, wsOpen)
  /\ waited' = 0
  /\ expired' = (elapsed > KeepAlive /\ state \in {ICE_READY, CONNECTED})
  /\ UNCHANGED <<state, exc, cycle, engineVars, caller, wsOpen, tried, age,
                 elapsed, frameVars, cleanups, cleanupEntry, termWritten,
                 closedSeen, auxVars>>

\* except websockets.exceptions.ConnectionClosed, raised by recv
RecvClosed ==
  /\ pc = "recv"
  /\ ~wsOpen
  /\ state' = TERMINATED
  /\ termWritten' = TRUE
  /\ closedSeen' = TRUE
  /\ pc' = NextIteration(TERMINATED, wsOpen)
  /\ waited' = 0
  /\ UNCHANGED <<exc, cycle, engineVars, caller, wsOpen, tried, age, elapsed,
                 frameVars, cleanups, cleanupEntry, expired, auxVars>>

\* receive_message: a frame arrives and is dispatched; execute_and_send
\* runs a command with subprocess.check_output, which returns when the
\* process has ended ("cmd_exec": the thread is inside check_output)
RecvFrame(f) ==
  /\ pc = "recv"
  /\ wsOpen
  /\ frames < MaxFrames
  /\ frames' = frames + 1
  /\ cur' = f
  /\ sent' = <<>>
  /\ waited' = 0
  /\ CASE Route(f) = "raise" ->
            /\ RaiseInChannel
            /\ UNCHANGED <<state, caller, reply, offers>>
       [] Route(f) = "log" ->
            /\ pc' = NextIteration(state, wsOpen)
            /\ UNCHANGED <<state, exc, caller, reply, offers>>
       [] Route(f) = "offer" ->
            /\ state' = ICING
            /\ caller' = PeerOf(f)
            /\ offers' = offers + 1
            /\ pc' = "neg_remote"
            /\ UNCHANGED <<exc, reply>>
       [] Route(f) = "command" ->
            /\ reply' = IF f.halts THEN CommandOutput(f) ELSE reply
            /\ pc' = IF f.halts THEN "cmd_send" ELSE "cmd_exec"
            /\ UNCHANGED <<state, exc, caller, offers>>
  /\ fault' = IF Route(f) = "raise" THEN "frame" ELSE fault
  /\ UNCHANGED <<cycle, engineVars, wsOpen, tried, age, elapsed, answers,
                 ghostVars, socks, tokenOk, discWritten>>

\* make_answer: await self._pc.setRemoteDescription; setup_iceevents
NegSetRemote(ok) ==
  /\ pc = "neg_remote"
  /\ IF ok
     THEN /\ iceCb' = TRUE
          /\ pc' = "neg_rec"
          /\ UNCHANGED exc
     ELSE /\ RaiseInChannel
          /\ UNCHANGED iceCb
  /\ fault' = IF ok THEN fault ELSE "negotiation"
  /\ UNCHANGED <<state, cycle, pcCycle, pcClosed, recorderOn, ice, dtls,
                 dtlsTask, caller, wsOpen, tried, clockVars, frameVars,
                 ghostVars, socks, tokenOk, discWritten>>

\* make_answer: await self._recorder.start; addTrack; setup_transport_events
NegAddTrack(ok) ==
  /\ pc = "neg_rec"
  /\ recorderOn' = TRUE
  /\ IF ok
     THEN /\ dtls' = IF dtls = "new" THEN dtls ELSE "new"
          /\ pc' = "neg_answer"
          /\ UNCHANGED exc
     ELSE /\ RaiseInChannel
          /\ UNCHANGED dtls
  /\ fault' = IF ok THEN fault ELSE "negotiation"
  /\ UNCHANGED <<state, cycle, pcCycle, pcClosed, iceCb, ice, dtlsTask,
                 caller, wsOpen, tried, clockVars, frameVars, ghostVars,
                 socks, tokenOk, discWritten>>

\* make_answer: await createAnswer; await setLocalDescription
NegCreateAnswer(ok) ==
  /\ pc = "neg_answer"
  /\ IF ok
     THEN /\ ice' = IF ice = "new" THEN "checking" ELSE ice
          /\ reply' = "answer"
          /\ pc' = "neg_send"
          /\ UNCHANGED exc
     ELSE /\ RaiseInChannel
          /\ UNCHANGED <<ice, reply>>
  /\ fault' = IF ok THEN fault ELSE "negotiation"
  /\ UNCHANGED <<state, cycle, pcCycle, pcClosed, recorderOn, iceCb, dtls,
                 dtlsTask, caller, wsOpen, tried, clockVars, frames, cur,
                 sent, answers, offers, ghostVars, socks, tokenOk,
                 discWritten>>

\* send_message, called by make_answer and by execute_and_send
SendMessage ==
  /\ pc \in {"neg_send", "cmd_send"}
  /\ IF wsOpen
     THEN /\ sent' = Append(sent, Envelope(caller, reply))
          /\ answers' = IF pc = "neg_send" THEN answers + 1 ELSE answers
          /\ pc' = NextIteration(state, wsOpen)
          /\ UNCHANGED <<state, termWritten, closedSeen>>
     ELSE /\ state' = TERMINATED
          /\ termWritten' = TRUE
          /\ closedSeen' = TRUE
          /\ pc' = NextIteration(TERMINATED, wsOpen)
          /\ UNCHANGED <<sent, answers>>
  /\ reply' = "none"
  /\ UNCHANGED <<exc, cycle, engineVars, caller, wsOpen, tried, clockVars,
                 frames, cur, offers, cleanups, cleanupEntry, expired,
                 auxVars>>

\* leaving "async with": the connection is closed; an exception goes on to
\* run's "except Exception"; then "finally" calls cleanup
WsExit ==
  /\ pc = "ws_exit"
  /\ wsOpen' = FALSE
  /\ exc' = "none"
  /\ state' = IF exc = "Exception" THEN ExceptState(state) ELSE state
  /\ termWritten' = (termWritten \/ exc = "Exception")
  /\ pc' = "cl_stop"
  /\ cleanups' = cleanups + 1
  /\ cleanupEntry' = state'
  /\ socks' = Closed(socks)
  /\ UNCHANGED <<cycle, engineVars, caller, tried, clockVars, frameVars,
                 closedSeen, expired, tokenOk, fault, discWritten>>

\* ----------------------------------------------------------------- cleanup

\* close: await self._recorder.stop(), then self._pc.close() begins; the
\* attributes exist only once a doIce has created them
CleanupClose ==
  /\ pc = "cl_stop"
  /\ IF pcCycle = 0
     THEN /\ pc' = "crashed"
          /\ UNCHANGED <<pcClosed, recorderOn, ice, dtls, dtlsTask>>
     ELSE /\ recorderOn' = FALSE
          /\ pcClosed' = TRUE
          /\ ice' = "closed"
          /\ dtls' = IF dtls = "new" THEN "closed" ELSE dtls
          /\ dtlsTask' = (dtlsTask \/ (~pcClosed /\ dtls = "new"))
          /\ pc' = IF pcClosed THEN "cl_return" ELSE "cl_closing"
  /\ UNCHANGED <<state, exc, cycle, pcCycle, iceCb, caller, wsOpen, tried,
                 clockVars, frameVars, ghostVars, auxVars>>

\* cleanup after close returned: the reset, "return True", back to the loop
CleanupFinish ==
  /\ pc \in {"cl_closing", "cl_return"}
  /\ state' = CleanupState(state)
  /\ pc' = "loop"
  /\ UNCHANGED <<exc, cycle, engineVars, caller, wsOpen, tried, clockVars,
                 frameVars, ghostVars, auxVars>>

\* ------------------------------------------- the event loop's other work

\* the engine reports iceConnectionState 'completed'
IceCompleted ==
  /\ pc \in Suspended
  /\ ice = "checking"
  /\ ~pcClosed
  /\ ice' = "completed"
  /\ state' = IF iceCb THEN OnIceState(state, "completed") ELSE state
  /\ UNCHANGED <<pc, exc, cycle, pcCycle, pcClosed, recorderOn, iceCb, dtls,
                 dtlsTask, caller, wsOpen, tried, clockVars, frameVars,
                 ghostVars, auxVars>>

\* the sender's transport closes (the remote peer hung up); the emitter
\* schedules the coroutine on_dtlsstatechanged
TransportClosed ==
  /\ pc \in Suspended
  /\ dtls = "new"
  /\ dtls' = "closed"
  /\ dtlsTask' = TRUE
  /\ UNCHANGED <<state, pc, exc, cycle, pcCycle, pcClosed, recorderOn, iceCb,
                 ice, caller, wsOpen, tried, clockVars, frameVars, ghostVars,
                 auxVars>>

\* the scheduled on_dtlsstatechanged runs
DtlsTaskRun ==
  /\ pc \in Suspended
  /\ dtlsTask
  /\ dtlsTask' = FALSE
  /\ state' = OnDtlsState(state, dtls)
  /\ discWritten' =
       (discWritten \/ (pc \in InChannel /\ wsOpen /\ state' = DISCONNECTED))
  /\ UNCHANGED <<pc, exc, cycle, pcCycle, pcClosed, recorderOn, iceCb, ice,
                 dtls, caller, wsOpen, tried, clockVars, frameVars, ghostVars,
                 socks, tokenOk, fault>>

\* the broker closes the signaling connection
ChannelClose ==
  /\ pc \in InChannel
  /\ wsOpen
  /\ wsOpen' = FALSE
  /\ UNCHANGED <<state, pc, exc, cycle, engineVars, caller, tried, clockVars,
                 frameVars, ghostVars, auxVars>>

\* one second passes while the task waits for the network: for the
\* long-lived connection to open, or in wait_for(websocket.recv(), 1.0)
Tick ==
  /\ pc \in {"connect", "recv"}
  /\ pc = "recv" => (waited = 0 /\ wsOpen)
  /\ age' = Min(age + 1, MaxAge)
  /\ elapsed' = Min(elapsed + 1, MaxAge)
  /\ waited' = IF pc = "recv" THEN 1 ELSE waited
  /\ UNCHANGED <<state, pc, exc, cycle, engineVars, caller, wsOpen, tried,
                 frameVars, ghostVars, auxVars>>

Next ==
  \/ RunLoop
  \/ \E ok \in BOOLEAN : DoIce(ok)
  \/ \E ok \in BOOLEAN : StartSignaling(ok)
  \/ \E ok \in BOOLEAN : GetHost(ok)
  \/ \E ok \in BOOLEAN : Probe(ok)
  \/ ProbeClose
  \/ \E ok \in BOOLEAN : Connect(ok)
  \/ RecvTimeout
  \/ RecvClosed
  \/ \E f \in Frames : RecvFrame(f)
  \/ \E ok \in BOOLEAN : NegSetRemote(ok)
  \/ \E ok \in BOOLEAN : NegAddTrack(ok)
  \/ \E ok \in BOOLEAN : NegCreateAnswer(ok)
  \/ SendMessage
  \/ WsExit
  \/ CleanupClose
  \/ CleanupFinish
  \/ IceCompleted
  \/ TransportClosed
  \/ DtlsTaskRun
  \/ ChannelClose
  \/ Tick

Spec == Init /\ [][Next]_vars

TypeOK ==
  /\ state \in PcState
  /\ socks \in 0..1
  /\ pc \in Suspended \cup {"loop", "doIce", "start", "gethost", "cl_stop",
                            "cl_return", "done", "crashed", "cmd_exec"}
  /\ tried \in 0..MaxTried
  /\ age \in 0..MaxAge
  /\ elapsed \in 0..MaxAge
  /\ Len(sent) <= 1


\* ================================================================== claims

NegPoints == {"neg_remote", "neg_rec", "neg_answer", "neg_send"}
CleanupPoints == {"cl_stop", "cl_closing", "cl_return"}

IsOffer(f) == f.o = "message" /\ f.type = "offer"

\* a well-formed frame no branch of the dispatch recognises
Unrecognized(f) ==
  \/ f.o \notin Objectives \cup {"malformed", "none"}
  \/ (f.o = "message" /\ f.type \notin MsgTypes \cup {"absent"})

\* C1: TERMINATED is absorbing: once the state is TERMINATED no later write
\* (offer dispatch, the ICE callback, the transport callback, cleanup's
\* reset) changes it to another value.
C1_TerminatedAbsorbing == [][state = TERMINATED => state' = TERMINATED]_vars

\* C2: once TERMINATED has been written the receive loop dispatches no
\* further frame and the outer loop starts no other cycle.
C2_TerminatedEndsRun ==
  [][termWritten => (cycle' = cycle /\ frames' = frames)]_vars

\* C3: after ConnectionClosed in the receive loop cleanup runs once for that
\* cycle, no new cycle is started, and run() returns in state TERMINATED.
C3_ChannelClosedEndsRun ==
  [][closedSeen => /\ cycle' = cycle
                   /\ cleanups' <= 1
                   /\ (pc' = "loop" => state' = TERMINATED)]_vars

\* C4: every cycle executes cleanup exactly once, which stops the recorder
\* and closes the peer connection; right after it the state is ICE_NOT_READY
\* unless cleanup was entered in TERMINATED, and then it is TERMINATED.
C4_CleanupOncePerCycle ==
  /\ pc # "crashed"
  /\ (pc = "loop" /\ cycle > 0) =>
       /\ cleanups = 1
       /\ ~recorderOn
       /\ pcClosed
       /\ state = IF cleanupEntry = TERMINATED THEN TERMINATED
                  ELSE ICE_NOT_READY

\* C5: cleanup never faults, whatever state it is invoked in, also when
\* doIce failed before the peer connection and the recorder were created.
C5_CleanupNeverFaults == pc # "crashed"

\* C6: a receive timeout that finds elapsed > keep_alive_interval in state
\* ICE_READY (or CONNECTED) leaves the receive loop; the cycle is cleaned up
\* and the state is ICE_NOT_READY when the outer loop runs doIce again.
C6_ExpiryRecycles ==
  expired =>
    /\ pc \in {"ws_exit", "loop", "doIce"} \cup CleanupPoints
    /\ pc \in {"loop", "doIce"} => state = ICE_NOT_READY

\* C6 witness: the credentials expired in a cycle that received no frame,
\* and the outer loop is about to run doIce again.
C6_Witness ==
  expired /\ pc = "doIce" /\ frames = 0 /\ cycle = 2 /\ state = ICE_NOT_READY

\* C7: while the receive loop runs on a credential set, the time since doIce
\* issued it does not exceed keep_alive_interval.
C7_CredentialsFresh == pc \in InChannel => age <= KeepAlive

\* C8: at most one offer is negotiated, and at most one answer sent, on the
\* peer connection of a cycle.
C8_OneSessionPerCycle == offers <= 1 /\ answers <= 1

\* C9: an offer received in ICE_READY moves the state to ICING and starts
\* the negotiation; a negotiation step sends nothing unless it is the one
\* that completes the negotiation, and that one sends exactly one envelope:
\* o = 'message', target = the last path segment of the offer's m.f,
\* payload = the local answer.
C9_OfferAnswered ==
  [][/\ (pc = "recv" /\ state = ICE_READY /\ frames' = frames + 1
         /\ IsOffer(cur'))
          => (state' = ICING /\ pc' = "neg_remote" /\ sent' = <<>>)
     /\ (IsOffer(cur) /\ pc \in NegPoints)
          => sent' = IF pc' = "recv"
                     THEN <<[t |-> "u", f |-> <<Channel, User>>,
                             o |-> "message", mt |-> cur.f[Len(cur.f)],
                             msg |-> "answer"]>>
                     ELSE <<>>]_vars

\* C9 witness: the first offer of the first cycle (received in ICE_READY,
\* from bob) has been answered and the loop is receiving again.
C9_Witness ==
  /\ cycle = 1 /\ offers = 1 /\ frames = 1
  /\ IsOffer(cur) /\ cur.f = <<Channel, "bob">>
  /\ pc = "recv" /\ Len(sent) = 1 /\ sent[1].mt = "bob"

\* C10: a well-formed frame with an unrecognised objective or message type
\* leaves the state unchanged, sends nothing, raises nothing, and the
\* receive loop goes on to its next iteration.
C10_UnknownFrameIgnored ==
  [][(pc = "recv" /\ frames' = frames + 1 /\ Unrecognized(cur'))
       => /\ state' = state
          /\ sent' = <<>>
          /\ exc' = "none"
          /\ pc' = "recv"]_vars

\* C10 witness: an unrecognised frame was received while a negotiated
\* session was connecting, and the loop is receiving again.
C10_Witness ==
  /\ Unrecognized(cur) /\ pc = "recv" /\ frames = 2 /\ state = CONNECTING

\* the steps of a cycle after the exception handler of run has run
AfterHandler == CleanupPoints \cup {"loop", "done", "crashed"}

\* the failures the claim calls recoverable
RecoverableFaults == {"getice", "gettoken", "gethost", "exhausted",
                      "negotiation"}

\* a step of the main task that completes the await at position p
Leaves(p) == pc = p /\ pc' # p

\* C11: a malformed inbound frame (not JSON, or without m.o / p.msg) is
\* dropped: the state is unchanged, the receive loop goes on to the next
\* receive, no exception is pending.
C11_MalformedFrameDropped ==
  [][(pc = "recv" /\ frames' = frames + 1 /\ cur'.o = "malformed")
       => (state' = state /\ pc' = "recv" /\ exc' = "none")]_vars

C13_FaultEndsRun ==
  [][fault # "none"
       => /\ cycle' = cycle
          /\ pc' # "crashed"
          /\ (pc' = "loop" => state' = TERMINATED)]_vars

\* C14: get_wsurl probes at most ten candidates: a probe is only started
\* with fewer than ten failures, a failed probe adds exactly one, the URL is
\* returned only after an accepted probe and then at once, and with ten
\* failures get_wsurl raises.
C14_BoundedProbes ==
  [][/\ tried' <= MaxTried
     /\ (pc' = "probe" => tried' < MaxTried)
     /\ (Leaves("probe") /\ pc' # "probe_close")
          => (pc' = "gethost" /\ tried' = tried + 1)
     /\ (pc' = "connect" /\ pc # "connect") => pc = "probe_close"
     /\ Leaves("probe_close") => pc' = "connect"
     /\ (pc = "gethost" /\ tried = MaxTried)
          => (pc' = "cl_stop" /\ fault' = "exhausted")]_vars

C14_Witness ==
  /\ fault = "exhausted"
  /\ pc = "cl_stop"
  /\ cycle = 2
  /\ socks = 0

C16_ReplyToSender ==
  [][(Leaves("cmd_send") /\ wsOpen)
       => /\ Len(sent') = 1
          /\ sent'[1].mt = cur.f[Len(cur.f)]
          /\ sent'[1].msg = (IF cur.ok THEN "output" ELSE "can not execute")
          /\ state' = state
          /\ exc' = "none"]_vars

\* C17: at most one websocket connection is open: none when a probe or the
\* long-lived connection is about to be opened, none between cycles.
C17_OneWebsocket ==
  /\ socks <= 1
  /\ pc \in {"gethost", "probe", "connect"} => socks = 0
  /\ pc \in {"loop", "doIce", "start", "done"} \cup CleanupPoints => socks = 0
  /\ wsOpen => socks = 1

C17_Witness ==
  /\ cycle = 2
  /\ pc = "recv"
  /\ wsOpen
  /\ socks = 1
  /\ frames = 1

\* states from ICE_READY on
ReadyOrLater == {ICE_READY, ICING, CONNECTING, CONNECTED, DISCONNECTED}

C19_DisconnectedExits ==
  [][(discWritten /\ pc = "recv" /\ wsOpen /\ waited = 1 /\ waited' = 0
        /\ frames' = frames)
       => pc' = "ws_exit"]_vars

\* the lifecycle's edges
Edges ==
  {<<ICE_NOT_READY, ICE_READY>>, <<ICE_READY, ICING>>, <<ICING, CONNECTING>>,
   <<CONNECTING, CONNECTED>>, <<CONNECTED, DISCONNECTED>>,
   <<DISCONNECTED, ICE_NOT_READY>>, <<ICE_READY, ICE_NOT_READY>>}
  \cup {<<s, TERMINATED>> : s \in ReadyOrLater \cup {ICE_NOT_READY}}

\* C20: every change of the state follows an edge of the lifecycle.
C20_LifecycleEdges == [][state' # state => <<state, state'>> \in Edges]_vars

\* positions of start_signaling, from its entry to the end of its channel
SignalingPoints ==
  {"start", "gethost", "probe", "probe_close", "connect", "ws_exit"}
    \cup InChannel

\* C21: every cycle starts clean: an iteration of run's loop is entered in
\* state ICE_NOT_READY and goes to doIce, and start_signaling runs only with
\* the peer connection that doIce created in this cycle, not yet closed,
\* whatever callbacks of the previous cycle fired during or after its cleanup.
C21_CycleStartsClean ==
  [][/\ (pc = "loop" /\ cycle' = cycle + 1)
          => (state = ICE_NOT_READY /\ pc' = "doIce")
     /\ pc' \in SignalingPoints => (pcCycle' = cycle' /\ ~pcClosed')]_vars

C21_Witness ==
  /\ cycle = 2
  /\ pc = "start"
  /\ pcCycle = 2
  /\ ~pcClosed
  /\ dtlsTask
  /\ termWritten

\* positions of the receive loop's iteration
LoopPoints == InChannel \cup {"cmd_exec"}

\* the steps that carry an iteration of the receive loop on: the task's own
\* steps and the second that makes wait_for time out
LoopStep ==
  \/ RecvTimeout
  \/ RecvClosed
  \/ \E f \in Frames : RecvFrame(f)
  \/ \E ok \in BOOLEAN :
       NegSetRemote(ok) \/ NegAddTrack(ok) \/ NegCreateAnswer(ok)
  \/ SendMessage
  \/ Tick

\* C22: the receive loop never blocks indefinitely: at every position of an
\* iteration a step is possible that carries the iteration on to a received
\* frame, a timeout or a closed-channel result.
C22_LoopNeverBlocks == pc \in LoopPoints => ENABLED LoopStep

====
